---- MODULE Spec2Model ----
(***************************************************************************)
(* A model of optiweb: the command line of src/index.js and the batch      *)
(* pipeline of src/optiweb.js (processDirectory, processMultiSizeImage,    *)
(* optimizeImage, slugifyFilename).                                        *)
(*                                                                         *)
(* Strings are sequences of one-character strings, so that the path and    *)
(* name conversions of the code (extname, basename, slugify, replace,      *)
(* parseInt, split) are computed character by character.  An output path   *)
(* is written relative to the output directory.                            *)
(***************************************************************************)
EXTENDS Integers, Sequences, FiniteSets, TLC

----------------------------------------------------------------------------
(* Characters and JavaScript string primitives                             *)

UpperCase == <<"A","B","C","D","E","F","G","H","I","J","K","L","M",
               "N","O","P","Q","R","S","T","U","V","W","X","Y","Z">>

LowerCase == <<"a","b","c","d","e","f","g","h","i","j","k","l","m",
               "n","o","p","q","r","s","t","u","v","w","x","y","z">>

Digits == <<"0","1","2","3","4","5","6","7","8","9">>

Range(s) == { s[k] : k \in DOMAIN s }

IsDigit(c) == c \in Range(Digits)

DigitVal(c) == (CHOOSE k \in DOMAIN Digits : Digits[k] = c) - 1

\* \s of a JavaScript regular expression, and the characters trim() removes
IsSpace(c) == c \in {" ", "\t"}

\* \w of a JavaScript regular expression
IsWord(c) == c \in Range(UpperCase) \cup Range(LowerCase) \cup Range(Digits) \cup {"_"}

LowerChar(c) ==
  IF c \in Range(UpperCase)
    THEN LowerCase[CHOOSE k \in DOMAIN UpperCase : UpperCase[k] = c]
    ELSE c

\* String.prototype.toLowerCase
toLowerCase(s) == [k \in DOMAIN s |-> LowerChar(s[k])]

\* String.prototype.slice(from) and slice(0, to), 0-based as in JavaScript
SliceFrom(s, from) == SubSeq(s, from + 1, Len(s))

SliceTo(s, to) == SubSeq(s, 1, to)

\* String.prototype.lastIndexOf(c): 0-based, -1 when absent
lastIndexOf(s, c) ==
  IF \E k \in DOMAIN s : s[k] = c
    THEN (CHOOSE k \in DOMAIN s : s[k] = c /\ \A j \in DOMAIN s : s[j] = c => j <= k) - 1
    ELSE -1

\* 1-based position of the first occurrence of t in s, 0 when absent
IndexOf(s, t) ==
  LET hits == { k \in 1..(Len(s) - Len(t) + 1) : SubSeq(s, k, k + Len(t) - 1) = t }
  IN  IF hits = {} THEN 0 ELSE CHOOSE k \in hits : \A j \in hits : k <= j

EndsWith(s, t) == Len(t) <= Len(s) /\ SubSeq(s, Len(s) - Len(t) + 1, Len(s)) = t

\* a replace of every occurrence of the token
RECURSIVE ReplaceFirst_All(_, _, _)
ReplaceFirst_All(s, token, by) ==
  LET k == IndexOf(s, token)
  IN  IF k = 0 THEN s
      ELSE SubSeq(s, 1, k - 1) \o by
             \o ReplaceFirst_All(SubSeq(s, k + Len(token), Len(s)), token, by)

\* String.prototype.replace(token, by) with a string token: the first
\* occurrence only
ReplaceFirst(s, token, by) ==
  LET k == IndexOf(s, token)
  IN  IF k = 0 THEN s
      ELSE SubSeq(s, 1, k - 1) \o by \o SubSeq(s, k + Len(token), Len(s))

\* String.prototype.trim
RECURSIVE TrimLeft(_)
TrimLeft(s) == IF s # <<>> /\ IsSpace(Head(s)) THEN TrimLeft(Tail(s)) ELSE s

RECURSIVE TrimRight(_)
TrimRight(s) ==
  IF s # <<>> /\ IsSpace(s[Len(s)]) THEN TrimRight(SubSeq(s, 1, Len(s) - 1)) ELSE s

Trim(s) == TrimRight(TrimLeft(s))

\* String.prototype.split(sep) for a one-character separator: "" splits
\* into one empty string
RECURSIVE Split(_, _)
Split(s, sep) ==
  LET k == IndexOf(s, <<sep>>)
  IN  IF k = 0 THEN <<s>>
      ELSE <<SubSeq(s, 1, k - 1)>> \o Split(SubSeq(s, k + 1, Len(s)), sep)

\* the decimal string of a non-negative integer (a number used in a
\* template or in String.prototype.replace)
RECURSIVE DecStr(_)
DecStr(n) == IF n < 10 THEN <<Digits[n + 1]>> ELSE DecStr(n \div 10) \o <<Digits[(n % 10) + 1]>>

\* parseInt(s, 10): leading white space, an optional sign, then the longest
\* run of digits; NaN when there is no digit
RECURSIVE DigitRun(_, _)
DigitRun(s, acc) ==
  IF s # <<>> /\ IsDigit(Head(s)) THEN DigitRun(Tail(s), acc * 10 + DigitVal(Head(s))) ELSE acc

NaN == [nan |-> TRUE, val |-> 0]

Num(n) == [nan |-> FALSE, val |-> n]

parseInt(str) ==
  LET s    == TrimLeft(str)
      neg  == s # <<>> /\ Head(s) = "-"
      body == IF s # <<>> /\ Head(s) \in {"-", "+"} THEN Tail(s) ELSE s
  IN  IF body = <<>> \/ ~IsDigit(Head(body)) THEN NaN
      ELSE Num(IF neg THEN 0 - DigitRun(body, 0) ELSE DigitRun(body, 0))

isNaN(x) == x.nan

----------------------------------------------------------------------------
(* path module of Node.js, on relative POSIX paths                         *)

\* path.dirname
dirname(p) ==
  LET k == lastIndexOf(p, "/")
  IN  IF k = -1 THEN <<".">> ELSE IF k = 0 THEN <<"/">> ELSE SliceTo(p, k)

\* path.basename(p)
basename(p) == SliceFrom(p, lastIndexOf(p, "/") + 1)

\* path.extname: from the last dot of the base name, "" when there is no
\* dot or the only dot is the first character
extname(p) ==
  LET b == basename(p)
      k == lastIndexOf(b, ".")
  IN  IF k <= 0 THEN <<>> ELSE SliceFrom(b, k)

\* path.basename(p, ext): the suffix is removed when the base name ends with
\* it, compared case-sensitively, and is not the whole base name
basenameExt(p, ext) ==
  LET b == basename(p)
  IN  IF ext # <<>> /\ b # ext /\ EndsWith(b, ext)
        THEN SliceTo(b, Len(b) - Len(ext))
        ELSE b

\* path.join(dir, name) for a normalized dir and a normalized relative name:
\* an empty name gives dir, and "." as dir disappears
join(dir, name) ==
  IF name = <<>> THEN dir
  ELSE IF dir = <<".">> THEN name
  ELSE dir \o <<"/">> \o name

----------------------------------------------------------------------------
(* slugifyFilename, src/optiweb.js                                         *)

\* .replace(/[^\w\s-]/g, '')
RemoveSpecial(s) == SelectSeq(s, LAMBDA c : IsWord(c) \/ IsSpace(c) \/ c = "-")

\* .replace(/\s+/g, '-')
RECURSIVE SpacesToHyphen(_)
SpacesToHyphen(s) ==
  IF s = <<>> THEN <<>>
  ELSE IF IsSpace(Head(s)) THEN <<"-">> \o SpacesToHyphen(TrimLeft(s))
  ELSE <<Head(s)>> \o SpacesToHyphen(Tail(s))

\* .replace(/-+/g, '-')
RECURSIVE CollapseHyphens(_)
CollapseHyphens(s) ==
  IF Len(s) < 2 THEN s
  ELSE IF s[1] = "-" /\ s[2] = "-" THEN CollapseHyphens(Tail(s))
  ELSE <<Head(s)>> \o CollapseHyphens(Tail(s))

\* .replace(/^-+|-+$/g, '')
RECURSIVE StripHyphens(_)
StripHyphens(s) ==
  IF s # <<>> /\ Head(s) = "-" THEN StripHyphens(Tail(s))
  ELSE IF s # <<>> /\ s[Len(s)] = "-" THEN StripHyphens(SubSeq(s, 1, Len(s) - 1))
  ELSE s

\* a slugify that removes the leading and trailing hyphens before it turns
\* the white space into hyphens
slugifyFilename_StripFirst(fname) ==
  LET lastDotIndex == lastIndexOf(fname, ".")
      ext  == IF lastDotIndex # -1 THEN SliceFrom(fname, lastDotIndex) ELSE <<>>
      name == IF lastDotIndex # -1 THEN SliceTo(fname, lastDotIndex) ELSE fname
      slugName ==
        Trim(CollapseHyphens(SpacesToHyphen(StripHyphens(RemoveSpecial(toLowerCase(name))))))
  IN  slugName \o ext

slugifyFilename(fname) ==
  LET lastDotIndex == lastIndexOf(fname, ".")
      ext  == IF lastDotIndex # -1 THEN SliceFrom(fname, lastDotIndex) ELSE <<>>
      name == IF lastDotIndex # -1 THEN SliceTo(fname, lastDotIndex) ELSE fname
      slugName ==
        StripHyphens(Trim(CollapseHyphens(SpacesToHyphen(RemoveSpecial(toLowerCase(name))))))
  IN  slugName \o ext

----------------------------------------------------------------------------
(* Bounds and inputs                                                       *)

\* the largest number of files in an input tree
MaxFiles == 2

\* the largest byte size an encoder produces
MaxBytes == 2

\* the files an input tree is drawn from, in the order glob lists them
Pool == << <<"A"," ","b",".","P","N","G">>,
           <<"a","-","b",".","P","N","G">>,
           <<"a",".","j","p","g">>,
           <<"a",".","p","n","g">>,
           <<"a",".","w","e","b","p">>,
           <<"d","/","a",".","j","p","g">>,
           <<"n",".","t","x","t">>,
           <<"!",".","j","p","g">>,
           <<"b",".","c",".","j","p","g">> >>

\* fs.stat(inputFile).size of a file of the pool
ByteSize(file) == IF file \in { <<"a",".","j","p","g">>, <<"n",".","t","x","t">> } THEN 1 ELSE 2

\* sharp(inputFile).metadata() of an image of the pool: width and height
Metadata(file) ==
  IF file = <<"a",".","p","n","g">> THEN [w |-> 1500, h |-> 1000] ELSE [w |-> 300, h |-> 200]

\* an input tree: the files of a subset of the pool, in glob order
TreeOf(idx) == SelectSeq(Pool, LAMBDA f : \E k \in idx : Pool[k] = f)

\* the files of the pool that come alone in a tree: the one that is neither
\* an image nor a .webp, and the ones whose name holds a special character
\* only, or several dots
Alone ==
  { k \in DOMAIN Pool : Pool[k] \in { <<"n",".","t","x","t">>, <<"!",".","j","p","g">>,
                                       <<"b",".","c",".","j","p","g">> } }

Trees ==
  { TreeOf(idx) : idx \in { x \in SUBSET (DOMAIN Pool \ Alone) : Cardinality(x) <= MaxFiles } }
    \cup { TreeOf({ k }) : k \in Alone }

\* program.opts() with the defaults of the option declarations.  An option
\* that is not given is undefined, written <<>> like the empty string (both
\* are falsy); sizesGiven tells them apart for --sizes.  slugGiven: --slug,
\* which is not among the declared options, is on the command line.
DefaultArgv ==
  [ quality |-> <<"8","5">>, jpgQuality |-> <<>>, pngQuality |-> <<>>,
    webp |-> FALSE, skipExisting |-> FALSE, ignore |-> <<>>,
    resize |-> <<>>, resizeMode |-> "cover", maxWidth |-> <<>>, maxHeight |-> <<>>,
    sizes |-> <<>>, sizesGiven |-> FALSE, suffixPattern |-> <<"-","{","w","i","d","t","h","}">>,
    onlyResize |-> FALSE, slugGiven |-> FALSE ]

\* --sizes 200,400,800
Sizes3 == [DefaultArgv EXCEPT !.sizes = <<"2","0","0",",","4","0","0",",","8","0","0">>,
                              !.sizesGiven = TRUE]

\* command lines that differ in the quality options only
QualityArgvs ==
  { [DefaultArgv EXCEPT !.quality = q[1], !.jpgQuality = q[2], !.pngQuality = q[3]] :
      q \in { << <<"0">>, <<"1","0","0">>, <<>> >>,
              << <<"1","0","0">>, <<>>, <<"0">> >>,
              << <<"1","5","0">>, <<>>, <<>> >>,
              << <<"-","1">>, <<>>, <<>> >>,
              << <<"a","b","c">>, <<>>, <<>> >>,
              << <<"8","5">>, <<"1","0","1">>, <<>> >>,
              << <<"8","5">>, <<>>, <<"-","5">> >>,
              << <<"1","0","1">>, <<"5","0">>, <<"5","0">> >> } }

\* the resize options of a command line: none, --sizes (with and without
\* the {width} token in the suffix pattern), --resize, --max-width
ResizeArgvs ==
  { DefaultArgv,
    Sizes3,
    [Sizes3 EXCEPT !.suffixPattern = <<"-","x">>],
    [DefaultArgv EXCEPT !.resize = <<"8","0","0","x","6","0","0">>],
    [DefaultArgv EXCEPT !.maxWidth = <<"1","2","0","0">>] }

WebpArgvs == { [a EXCEPT !.webp = w] : a \in ResizeArgvs, w \in BOOLEAN }

\* command lines with a valid quality: every resize option with and without
\* --webp; --only-resize and --skip-existing with the plain optimization and
\* with --sizes, with and without --webp; and --ignore of one file with the
\* default options, --webp and --skip-existing
FeatureArgvs ==
  WebpArgvs
    \cup { [a EXCEPT !.webp = w, !.onlyResize = TRUE] : a \in { DefaultArgv, Sizes3 }, w \in BOOLEAN }
    \cup { [a EXCEPT !.skipExisting = TRUE] :
             a \in { DefaultArgv, [DefaultArgv EXCEPT !.webp = TRUE], Sizes3 } }
    \cup { [a EXCEPT !.ignore = <<"a",".","w","e","b","p">>] :
             a \in { DefaultArgv, [DefaultArgv EXCEPT !.webp = TRUE],
                     [DefaultArgv EXCEPT !.skipExisting = TRUE] } }

\* command lines with several resize options at once, with a dimension that
\* is zero or negative, with an empty --sizes, with a suffix pattern that
\* holds {width} twice, and with --slug
EdgeArgvs ==
  { [Sizes3 EXCEPT !.resize = <<"8","0","0","x","6","0","0">>, !.maxWidth = <<"1","2","0","0">>],
    [DefaultArgv EXCEPT !.resize = <<"8","0","0","x","6","0","0">>, !.resizeMode = "contain",
                        !.maxWidth = <<"1","2","0","0">>],
    [DefaultArgv EXCEPT !.resize = <<"0","x","6","0","0">>],
    [DefaultArgv EXCEPT !.resize = <<"-","5","x","6","0","0">>],
    [DefaultArgv EXCEPT !.maxWidth = <<"0">>],
    [DefaultArgv EXCEPT !.maxHeight = <<"-","4">>],
    [DefaultArgv EXCEPT !.sizesGiven = TRUE],
    [DefaultArgv EXCEPT !.sizesGiven = TRUE, !.resize = <<"8","0","0","x","6","0","0">>],
    [Sizes3 EXCEPT !.suffixPattern = <<"-","{","w","i","d","t","h","}","{","w","i","d","t","h","}">>],
    [DefaultArgv EXCEPT !.slugGiven = TRUE] }

Argvs == QualityArgvs \cup FeatureArgvs \cup EdgeArgvs

\* the options of a direct call of processDirectory, written as the command
\* line that gives them: the plain optimization and --sizes, with and without
\* --webp, and --skip-existing
ApiArgvs ==
  { [a EXCEPT !.webp = w] : a \in { DefaultArgv, Sizes3 }, w \in BOOLEAN }
    \cup { [DefaultArgv EXCEPT !.skipExisting = TRUE] }

----------------------------------------------------------------------------
(* State                                                                   *)

VARIABLES
  argv,          \* program.opts(): the parsed command line
  inputExists,   \* whether the input directory exists
  tree,          \* the files under the input directory, in glob order
  pc,            \* "start", "called", "loop", "done", "rejected", "exited"
  entry,         \* "cli" (src/index.js) or "api" (require('./optiweb'))
  exitCode,      \* the exit code of the process, -1 while it runs
  options,       \* the options object given to processDirectory
  outDirs,       \* the directories that exist under (and including) outputDir
  outFs,         \* the files under outputDir: path -> content
  files,         \* processDirectory: the candidates that are not ignored
  webpBaseNames, \* processDirectory: the base names of the .webp candidates
  i,             \* processDirectory: the number of candidates handled
  results,       \* processDirectory: the statistics
  writes,        \* history: the files written by the run, in order
  outcomes,      \* history: what the loop did with each candidate, in order
  run,           \* the number of the run over this input / output tree
  filename,      \* slugifyFilename: the file name it is applied to
  slugified      \* slugifyFilename: the results of its successive applications

vars == << argv, inputExists, tree, pc, entry, exitCode, options, outDirs, outFs,
           files, webpBaseNames, i, results, writes, outcomes, run, filename, slugified >>

NoResize ==
  [ set |-> FALSE, hasSizes |-> FALSE, sizes |-> <<>>, suffixPattern |-> <<>>,
    mode |-> "", width |-> 0, height |-> 0, maxWidth |-> 0, maxHeight |-> 0 ]

NoOptions ==
  [ webp |-> FALSE, quality |-> 0, jpgQuality |-> 0, pngQuality |-> 0,
    skipExisting |-> FALSE, ignorePatterns |-> <<>>, resize |-> NoResize,
    onlyResize |-> FALSE, slug |-> FALSE ]

NoResults ==
  [ totalFiles |-> 0, optimizedImages |-> 0, resizedImages |-> 0, multiSizeImages |-> 0,
    copiedFiles |-> 0, skippedImages |-> 0, ignoredFiles |-> 0, totalSize |-> 0,
    totalSaved |-> 0, errors |-> <<>> ]

Init ==
  /\ argv \in Argvs
  /\ inputExists \in BOOLEAN
  /\ tree \in (IF inputExists THEN Trees ELSE { <<>> })
  /\ pc = "start"
  /\ entry = "cli"
  /\ exitCode = -1
  /\ options = NoOptions
  /\ outDirs = {}
  /\ outFs = << >>
  /\ files = <<>>
  /\ webpBaseNames = <<>>
  /\ i = 0
  /\ results = NoResults
  /\ writes = <<>>
  /\ outcomes = <<>>
  /\ run = 1
  /\ filename = <<>>
  /\ slugified = <<>>

----------------------------------------------------------------------------
(* src/index.js: the command line                                          *)

quality == parseInt(argv.quality)

jpgQuality == IF argv.jpgQuality # <<>> THEN parseInt(argv.jpgQuality) ELSE quality

pngQuality == IF argv.pngQuality # <<>> THEN parseInt(argv.pngQuality) ELSE quality

\* a validation without the upper limit
QualityRejected_NoUpperLimit(q) == isNaN(q) \/ q.val < 0

QualityRejected(q) == isNaN(q) \/ q.val < 0 \/ q.val > 100

\* options.ignore.split(',').map(p => p.trim())
ignorePatterns ==
  IF argv.ignore # <<>>
    THEN LET parts == Split(argv.ignore, ",") IN [k \in DOMAIN parts |-> Trim(parts[k])]
    ELSE <<>>

\* options.sizes.split(',').map(size => parseInt(size.trim(), 10))
ParsedSizes ==
  LET parts == Split(argv.sizes, ",") IN [k \in DOMAIN parts |-> parseInt(Trim(parts[k]))]

SizesRejected == \E k \in DOMAIN ParsedSizes : isNaN(ParsedSizes[k]) \/ ParsedSizes[k].val <= 0

dimensions == Split(argv.resize, "x")

DimensionsRejected ==
  \/ Len(dimensions) # 2
  \/ isNaN(parseInt(dimensions[1]))
  \/ isNaN(parseInt(dimensions[2]))

MaxWidthRejected ==
  argv.maxWidth # <<>> /\ (isNaN(parseInt(argv.maxWidth)) \/ parseInt(argv.maxWidth).val <= 0)

MaxHeightRejected ==
  argv.maxHeight # <<>> /\ (isNaN(parseInt(argv.maxHeight)) \/ parseInt(argv.maxHeight).val <= 0)

\* program.parse(): commander ends the process with exit code 1 at an option
\* that is not declared
UnknownOption == argv.slugGiven

\* whether the script ends in process.exit(1) before it calls processDirectory
ArgvRejected ==
  \/ UnknownOption
  \/ QualityRejected(quality)
  \/ QualityRejected(jpgQuality)
  \/ QualityRejected(pngQuality)
  \/ IF argv.sizes # <<>> THEN SizesRejected
     ELSE IF argv.resize # <<>> THEN DimensionsRejected
     ELSE IF argv.maxWidth # <<>> \/ argv.maxHeight # <<>>
       THEN MaxWidthRejected \/ MaxHeightRejected
     ELSE FALSE

resizeOptions ==
  IF argv.sizes # <<>>
    THEN [NoResize EXCEPT !.set = TRUE, !.hasSizes = TRUE,
                          !.sizes = [k \in DOMAIN ParsedSizes |-> ParsedSizes[k].val],
                          !.suffixPattern = argv.suffixPattern, !.mode = argv.resizeMode]
  ELSE IF argv.resize # <<>>
    THEN [NoResize EXCEPT !.set = TRUE, !.width = parseInt(dimensions[1]).val,
                          !.height = parseInt(dimensions[2]).val, !.mode = argv.resizeMode]
  ELSE IF argv.maxWidth # <<>> \/ argv.maxHeight # <<>>
    THEN [NoResize EXCEPT
            !.set = TRUE,
            !.maxWidth  = IF argv.maxWidth # <<>> THEN parseInt(argv.maxWidth).val ELSE 0,
            !.maxHeight = IF argv.maxHeight # <<>> THEN parseInt(argv.maxHeight).val ELSE 0]
  ELSE NoResize

\* the options object of the processDirectory call
CliOptions ==
  [ webp |-> argv.webp, quality |-> quality.val, jpgQuality |-> jpgQuality.val,
    pngQuality |-> pngQuality.val, skipExisting |-> argv.skipExisting,
    ignorePatterns |-> ignorePatterns, resize |-> resizeOptions,
    onlyResize |-> argv.onlyResize, slug |-> FALSE ]

\* node src/index.js: the script up to the processDirectory call
Main ==
  /\ pc = "start"
  /\ IF ArgvRejected
       THEN /\ pc' = "exited"
            /\ exitCode' = 1
            /\ UNCHANGED options
       ELSE /\ pc' = "called"
            /\ options' = CliOptions
            /\ UNCHANGED exitCode
  /\ UNCHANGED << argv, inputExists, tree, entry, outDirs, outFs, files, webpBaseNames,
                  i, results, writes, outcomes, run, filename, slugified >>

\* a program that requires src/optiweb.js and calls processDirectory itself,
\* with the options of the command line and slug: true
Require ==
  /\ pc = "start"
  /\ argv \in ApiArgvs
  /\ ~ArgvRejected
  /\ pc' = "called"
  /\ entry' = "api"
  /\ options' = [CliOptions EXCEPT !.slug = TRUE]
  /\ UNCHANGED << argv, inputExists, tree, exitCode, outDirs, outFs, files, webpBaseNames,
                  i, results, writes, outcomes, run, filename, slugified >>

----------------------------------------------------------------------------
(* src/optiweb.js: processDirectory up to the loop                         *)

\* micromatch of one file against one pattern, for patterns without glob
\* metacharacters: the pattern is the file's relative path
Match(file, pattern) == file = pattern

\* micromatch(allFiles, options.ignorePatterns)
ignoredFiles(allFiles, patterns) ==
  SelectSeq(allFiles, LAMBDA f : \E k \in DOMAIN patterns : Match(f, patterns[k]))

\* allFiles.filter((file) => !ignoredFiles.includes(file))
NotIgnored(allFiles, patterns) ==
  IF Len(patterns) > 0
    THEN SelectSeq(allFiles, LAMBDA f : f \notin Range(ignoredFiles(allFiles, patterns)))
    ELSE allFiles

\* files.filter(extname(file).toLowerCase() === '.webp').map(basename(file, '.webp'))
WebpBaseNames(fs) ==
  LET webpFiles == SelectSeq(fs, LAMBDA f : toLowerCase(extname(f)) = <<".","w","e","b","p">>)
  IN  [k \in DOMAIN webpFiles |-> basenameExt(webpFiles[k], <<".","w","e","b","p">>)]

\* the promise of processDirectory is rejected: src/index.js prints the
\* error and calls process.exit(1)
Rejected ==
  /\ pc' = "rejected"
  /\ exitCode' = IF entry = "cli" THEN 1 ELSE exitCode

\* the input directory is missing: thrown before anything is created
ScanInputMissing ==
  /\ pc = "called"
  /\ ~inputExists
  /\ Rejected
  /\ UNCHANGED << argv, inputExists, tree, entry, options, outDirs, outFs, files,
                  webpBaseNames, i, results, writes, outcomes, run, filename, slugified >>

\* fs.ensureDir(outputDir) throws (the output directory can not be created)
ScanEnsureDirFails ==
  /\ pc = "called"
  /\ inputExists
  /\ <<".">> \notin outDirs
  /\ Rejected
  /\ UNCHANGED << argv, inputExists, tree, entry, options, outDirs, outFs, files,
                  webpBaseNames, i, results, writes, outcomes, run, filename, slugified >>

\* the output directory is created, the input tree is listed, the ignored
\* files are filtered out and the statistics are initialised
Scan ==
  /\ pc = "called"
  /\ inputExists
  /\ outDirs' = outDirs \cup { <<".">> }
  /\ LET allFiles == tree
         kept     == NotIgnored(allFiles, options.ignorePatterns)
     IN  /\ files' = kept
         /\ webpBaseNames' = WebpBaseNames(kept)
         /\ results' = [NoResults EXCEPT
                          !.totalFiles = Len(kept),
                          !.ignoredFiles =
                            IF Len(options.ignorePatterns) > 0
                              THEN Len(ignoredFiles(allFiles, options.ignorePatterns))
                              ELSE 0]
  /\ i' = 0
  /\ pc' = "loop"
  /\ UNCHANGED << argv, inputExists, tree, entry, exitCode, options, outFs, writes,
                  outcomes, run, filename, slugified >>

----------------------------------------------------------------------------
(* sharp: the dimensions a resize produces                                 *)

Min(a, b) == IF a <= b THEN a ELSE b

Max(a, b) == IF a >= b THEN a ELSE b

\* a * b / c rounded to the nearest integer, at least 1
Scaled(a, b, c) == Max(1, (2 * a * b + c) \div (2 * c))

\* resize({ width, height: null, withoutEnlargement: true }): the width is
\* reduced to the requested one, the height follows the aspect ratio, and an
\* image that is not wider than requested keeps its dimensions
ResizeToWidth(dim, width) ==
  IF width >= dim.w THEN dim ELSE [w |-> width, h |-> Scaled(dim.h, width, dim.w)]

\* resize({ width?, height?, fit: 'inside', withoutEnlargement: true }): the
\* largest image of the same aspect ratio inside the box that is not larger
\* than the source; a bound of 0 is an option that was not set
ResizeInside(dim, maxWidth, maxHeight) ==
  LET byWidth  == maxWidth # 0 /\ maxWidth < dim.w
      byHeight == maxHeight # 0 /\ maxHeight < dim.h
  IN  IF byWidth /\ (~byHeight \/ maxWidth * dim.h <= maxHeight * dim.w)
        THEN [w |-> maxWidth, h |-> Scaled(dim.h, maxWidth, dim.w)]
      ELSE IF byHeight
        THEN [w |-> Scaled(dim.w, maxHeight, dim.h), h |-> maxHeight]
      ELSE dim

\* resize({ width, height, fit: 'cover' }): exactly the requested box
ResizeFixed(dim, width, height) == [w |-> width, h |-> height]

----------------------------------------------------------------------------
(* src/optiweb.js: the names and paths of one candidate                    *)

\* lines 76-88: the output path of the candidate, relative to outputDir
outputFile(file) ==
  LET outputFileName ==
        IF options.slug
          THEN LET dirName       == dirname(file)
                   baseName      == basename(file)
                   slugifiedName == slugifyFilename(baseName)
               IN  IF dirName = <<".">> THEN slugifiedName ELSE join(dirName, slugifiedName)
          ELSE file
  IN  join(<<".">>, outputFileName)

\* line 74: the directory of the outputs of the candidate, relative to outputDir
absoluteOutputDir(file) == dirname(file)

\* line 110
Ext(file) == toLowerCase(extname(file))

\* line 111
BaseName(file) == basenameExt(file, Ext(file))

\* line 113
IsJpegOrPng(ext) ==
  ext \in { <<".","j","p","g">>, <<".","j","p","e","g">>, <<".","p","n","g">> }

\* lines 149-158: the path optimizeImage writes
outputFilePath(file) ==
  IF options.webp
    THEN LET baseNameToUse ==
               IF options.slug THEN basename(slugifyFilename(BaseName(file)))
                               ELSE BaseName(file)
         IN  join(absoluteOutputDir(file), baseNameToUse \o <<".","w","e","b","p">>)
    ELSE outputFile(file)

\* lines 239-251 (and line 132): the path processMultiSizeImage writes for a size
MultiSizeOutputPath(file, size) ==
  LET baseName          == BaseName(file)
      slugifiedBaseName == IF options.slug THEN slugifyFilename(baseName) ELSE baseName
      suffixPattern     == IF options.resize.suffixPattern # <<>>
                             THEN options.resize.suffixPattern
                             ELSE <<"-","{","w","i","d","t","h","}">>
      suffix            == ReplaceFirst(suffixPattern, <<"{","w","i","d","t","h","}">>, DecStr(size))
      baseNameToUse     == IF slugifiedBaseName # <<>> THEN slugifiedBaseName ELSE baseName
      newBaseName       == baseNameToUse \o suffix
      outputExt         == IF options.webp THEN <<".","w","e","b","p">> ELSE Ext(file)
  IN  join(absoluteOutputDir(file), newBaseName \o outputExt)

\* fs.existsSync(path) under outputDir
ExistsSync(path) == path \in DOMAIN outFs \/ path \in outDirs

\* a file is written (created or replaced)
WriteFile(fs, path, content) ==
  [p \in DOMAIN fs \cup {path} |-> IF p = path THEN content ELSE fs[p]]

\* the encoder of an image: none with onlyResize (sharp then picks the format
\* from the extension of the output path), else webp, jpeg or png
Encoder(ext) ==
  IF options.onlyResize THEN "auto"
  ELSE IF options.webp THEN "webp"
  ELSE IF ext \in { <<".","j","p","g">>, <<".","j","p","e","g">> } THEN "jpeg"
  ELSE "png"

----------------------------------------------------------------------------
(* src/optiweb.js: one iteration of the loop of processDirectory           *)

\* the candidate of the iteration
File == files[i + 1]

InLoop == pc = "loop" /\ i < Len(files)

\* line 94: fs.ensureDir(absoluteOutputDir)
EnsureDir == outDirs' = outDirs \cup { absoluteOutputDir(File) }

\* line 99
Counted == [results EXCEPT !.totalSize = @ + ByteSize(File)]

\* a catch clause that records nothing
Caught_NotRecorded(res, message) == res

\* lines 187-190: the catch clause of the iteration
Caught(res, message) == [res EXCEPT !.errors = Append(@, [file |-> File, error |-> message])]

\* line 102
SkipsExisting == options.skipExisting /\ ExistsSync(outputFile(File))

\* a shadow check that looks for the .webp file in the directory of the image
SkipsShadowed_SameDir ==
  \E k \in DOMAIN files :
    files[k] = join(dirname(File), BaseName(File) \o <<".","w","e","b","p">>)

\* a shadow check that looks for the file name among the base names
SkipsShadowed_ByFileName == File \in Range(webpBaseNames)

\* line 115
SkipsShadowed == BaseName(File) \in Range(webpBaseNames)

\* line 125
IsMultiSize == options.resize.set /\ options.resize.hasSizes

\* the iteration is over: the next candidate is i + 1
Next_i(kind) ==
  /\ i' = i + 1
  /\ outcomes' = Append(outcomes, kind)
  /\ UNCHANGED << argv, inputExists, tree, pc, entry, exitCode, options, files,
                  webpBaseNames, run, filename, slugified >>

\* line 94 throws outside the try block: the promise is rejected
FileEnsureDirFails ==
  /\ InLoop
  /\ absoluteOutputDir(File) \notin outDirs
  /\ Rejected
  /\ UNCHANGED << argv, inputExists, tree, entry, options, outDirs, outFs, files,
                  webpBaseNames, i, results, writes, outcomes, run, filename, slugified >>

\* line 98 throws: the input file can not be read
FileStatFails ==
  /\ InLoop
  /\ EnsureDir
  /\ results' = Caught(results, "stat")
  /\ UNCHANGED << outFs, writes >>
  /\ Next_i("failed")

\* lines 101-107
FileExists ==
  /\ InLoop
  /\ EnsureDir
  /\ SkipsExisting
  /\ results' = Counted
  /\ UNCHANGED << outFs, writes >>
  /\ Next_i("existing")

\* the WebP check made before the check of line 102
FileShadowed_BeforeExisting ==
  /\ InLoop
  /\ EnsureDir
  /\ IsJpegOrPng(Ext(File))
  /\ SkipsShadowed
  /\ results' = [Counted EXCEPT !.skippedImages = @ + 1]
  /\ UNCHANGED << outFs, writes >>
  /\ Next_i("shadowed")

\* lines 113-122
FileShadowed ==
  /\ InLoop
  /\ EnsureDir
  /\ ~SkipsExisting
  /\ IsJpegOrPng(Ext(File))
  /\ SkipsShadowed
  /\ results' = [Counted EXCEPT !.skippedImages = @ + 1]
  /\ UNCHANGED << outFs, writes >>
  /\ Next_i("shadowed")

\* lines 178-186
FileCopied ==
  /\ InLoop
  /\ EnsureDir
  /\ ~SkipsExisting
  /\ ~IsJpegOrPng(Ext(File))
  /\ outFs' = WriteFile(outFs, outputFile(File),
                        [from |-> File, w |-> 0, h |-> 0, format |-> "copy"])
  /\ writes' = Append(writes, [by |-> File, path |-> outputFile(File), size |-> 0,
                                w |-> 0, h |-> 0, resize |-> "none", fit |-> ""])
  /\ results' = [Counted EXCEPT !.copiedFiles = @ + 1]
  /\ Next_i("copied")

\* line 180 throws
FileCopyFails ==
  /\ InLoop
  /\ EnsureDir
  /\ ~SkipsExisting
  /\ ~IsJpegOrPng(Ext(File))
  /\ results' = Caught(Counted, "copy")
  /\ UNCHANGED << outFs, writes >>
  /\ Next_i("failed")

\* optimizeImage, lines 320-337: the dimensions of the output
OptimizedDims(dim) ==
  IF options.resize.set
    THEN IF options.resize.width # 0 /\ options.resize.height # 0
           THEN ResizeFixed(dim, options.resize.width, options.resize.height)
           ELSE ResizeInside(dim, options.resize.maxWidth, options.resize.maxHeight)
    ELSE dim

\* optimizeImage, lines 320-337: the branch that resizes, and its fit
ResizeKind ==
  IF ~options.resize.set THEN "none"
  ELSE IF options.resize.width # 0 /\ options.resize.height # 0 THEN "fixed"
  ELSE "inside"

\* options.resize.mode || 'cover'
Fit == IF options.resize.mode # "" THEN options.resize.mode ELSE "cover"

ResizeFit == IF ResizeKind = "fixed" THEN Fit ELSE IF ResizeKind = "inside" THEN "inside" ELSE ""

\* sharp throws at a width or height that is not a positive integer
SharpAccepts ==
  ResizeKind = "fixed" => (options.resize.width > 0 /\ options.resize.height > 0)

\* lines 168-171: the bytes added to totalSaved for a single output
Saved(inputSize, outputSize) == inputSize - outputSize

\* lines 148-177: the image is optimized into one output of outputSize bytes
FileOptimized ==
  /\ InLoop
  /\ EnsureDir
  /\ ~SkipsExisting
  /\ IsJpegOrPng(Ext(File))
  /\ ~SkipsShadowed
  /\ ~IsMultiSize
  /\ SharpAccepts
  /\ \E outputSize \in 1..MaxBytes :
       LET dim == OptimizedDims(Metadata(File))
       IN  /\ outFs' = WriteFile(outFs, outputFilePath(File),
                                 [from |-> File, w |-> dim.w, h |-> dim.h,
                                  format |-> Encoder(Ext(File))])
           /\ writes' = Append(writes, [by |-> File, path |-> outputFilePath(File), size |-> 0,
                                         w |-> dim.w, h |-> dim.h,
                                         resize |-> ResizeKind, fit |-> ResizeFit])
           /\ results' = [Counted EXCEPT
                            !.optimizedImages = @ + 1,
                            !.resizedImages = IF options.resize.set THEN @ + 1 ELSE @,
                            !.totalSaved = @ + Saved(ByteSize(File), outputSize)]
  /\ Next_i("optimized")

\* optimizeImage throws (the image can not be decoded, encoded or written)
FileOptimizeFails ==
  /\ InLoop
  /\ EnsureDir
  /\ ~SkipsExisting
  /\ IsJpegOrPng(Ext(File))
  /\ ~SkipsShadowed
  /\ ~IsMultiSize
  /\ results' = Caught(Counted, "optimize")
  /\ UNCHANGED << outFs, writes >>
  /\ Next_i("failed")

\* line 169 throws: the output is written and the image is counted as
\* optimized (lines 161-166), then fs.stat(outputFilePath) fails
FileOptimizedStatFails ==
  /\ InLoop
  /\ EnsureDir
  /\ ~SkipsExisting
  /\ IsJpegOrPng(Ext(File))
  /\ ~SkipsShadowed
  /\ ~IsMultiSize
  /\ SharpAccepts
  /\ LET dim == OptimizedDims(Metadata(File))
     IN  /\ outFs' = WriteFile(outFs, outputFilePath(File),
                               [from |-> File, w |-> dim.w, h |-> dim.h,
                                format |-> Encoder(Ext(File))])
         /\ writes' = Append(writes, [by |-> File, path |-> outputFilePath(File), size |-> 0,
                                       w |-> dim.w, h |-> dim.h,
                                       resize |-> ResizeKind, fit |-> ResizeFit])
  /\ results' = Caught([Counted EXCEPT
                          !.optimizedImages = @ + 1,
                          !.resizedImages = IF options.resize.set THEN @ + 1 ELSE @],
                       "stat-output")
  /\ Next_i("failed")

\* a resize without withoutEnlargement: the output is as wide as requested
SizedContent_Enlarging(file, size) ==
  [from |-> file, w |-> size, h |-> Scaled(Metadata(file).h, size, Metadata(file).w),
   format |-> Encoder(Ext(file))]

\* processMultiSizeImage, lines 253-260: the output of one size, resized from
\* the input file
SizedContent(file, size) ==
  LET dim == ResizeToWidth(Metadata(file), size)
  IN  [from |-> file, w |-> dim.w, h |-> dim.h, format |-> Encoder(Ext(file))]

\* processMultiSizeImage, lines 237-289: the files after the first n sizes
RECURSIVE SizedFiles(_, _, _)
SizedFiles(fs, file, n) ==
  IF n = 0 THEN fs
  ELSE WriteFile(SizedFiles(fs, file, n - 1),
                 MultiSizeOutputPath(file, options.resize.sizes[n]),
                 SizedContent(file, options.resize.sizes[n]))

SizedWrites(file, n) ==
  [k \in 1..n |->
     LET size == options.resize.sizes[k]
     IN  [by |-> file, path |-> MultiSizeOutputPath(file, size), size |-> size,
          w |-> SizedContent(file, size).w, h |-> SizedContent(file, size).h,
          resize |-> "width", fit |-> Fit]]

\* lines 291-296: the bytes added for one size
SizeSaved(originalSize, outputSize) == Max(0, originalSize - outputSize)

\* processMultiSizeImage: results.totalSaved after all sizes
RECURSIVE SumSaved(_, _, _)
SumSaved(originalSize, outputSizes, n) ==
  IF n = 0 THEN 0
  ELSE SumSaved(originalSize, outputSizes, n - 1) + SizeSaved(originalSize, outputSizes[n])

\* lines 124-146: every size of the image is written
FileMultiSized ==
  /\ InLoop
  /\ EnsureDir
  /\ ~SkipsExisting
  /\ IsJpegOrPng(Ext(File))
  /\ ~SkipsShadowed
  /\ IsMultiSize
  /\ LET n == Len(options.resize.sizes)
     IN  /\ outFs' = SizedFiles(outFs, File, n)
         /\ writes' = writes \o SizedWrites(File, n)
         /\ \E outputSizes \in [1..n -> 1..MaxBytes] :
              results' = [Counted EXCEPT
                            !.multiSizeImages = @ + 1,
                            !.optimizedImages = @ + (IF options.onlyResize THEN 0 ELSE n),
                            !.totalSaved = @ + (IF options.onlyResize THEN 0
                                                ELSE SumSaved(ByteSize(File), outputSizes, n))]
  /\ Next_i("multi")

\* processMultiSizeImage throws: at metadata() (written = 0) or at the
\* toFile of a size, after the outputs of the sizes before it were written
FileMultiSizeFails ==
  /\ InLoop
  /\ EnsureDir
  /\ ~SkipsExisting
  /\ IsJpegOrPng(Ext(File))
  /\ ~SkipsShadowed
  /\ IsMultiSize
  /\ \E written \in 0..(Len(options.resize.sizes) - 1) :
       /\ outFs' = SizedFiles(outFs, File, written)
       /\ writes' = writes \o SizedWrites(File, written)
  /\ results' = Caught(Counted, "multi-size")
  /\ Next_i("failed")

\* lines 193-207: the loop is over and the statistics are returned;
\* src/index.js prints them and the process ends with exit code 0
Finish ==
  /\ pc = "loop"
  /\ i = Len(files)
  /\ pc' = "done"
  /\ exitCode' = IF entry = "cli" THEN 0 ELSE exitCode
  /\ UNCHANGED << argv, inputExists, tree, entry, options, outDirs, outFs, files,
                  webpBaseNames, i, results, writes, outcomes, run, filename, slugified >>

\* the steps of a run of the command line
CliNext ==
  \/ Main
  \/ ScanInputMissing
  \/ ScanEnsureDirFails
  \/ Scan
  \/ FileEnsureDirFails
  \/ FileStatFails
  \/ FileExists
  \/ FileShadowed
  \/ FileCopied
  \/ FileCopyFails
  \/ FileOptimized
  \/ FileOptimizeFails
  \/ FileOptimizedStatFails
  \/ FileMultiSized
  \/ FileMultiSizeFails
  \/ Finish

Next == CliNext \/ Require

Spec == Init /\ [][Next]_vars

----------------------------------------------------------------------------
(* A second run of the command line over the same input and output trees   *)

\* the command lines of the two runs
RerunArgvs ==
  { [DefaultArgv EXCEPT !.webp = a[1], !.skipExisting = a[2], !.ignore = a[3], !.sizes = a[4],
                        !.sizesGiven = (a[4] # <<>>)] :
      a \in { << FALSE, FALSE, <<>>, <<>> >>,
              << TRUE,  FALSE, <<>>, <<>> >>,
              << FALSE, TRUE,  <<>>, <<>> >>,
              << TRUE,  TRUE,  <<>>, <<>> >>,
              << FALSE, FALSE, <<"a",".","w","e","b","p">>, <<>> >>,
              << FALSE, TRUE,  <<"a",".","w","e","b","p">>, <<>> >>,
              << FALSE, TRUE,  <<>>, <<"2","0","0",",","4","0","0",",","8","0","0">> >> } }

\* the input trees of the two runs: a.jpg, a.png and a.webp in every
\* combination, a file in a subdirectory, and a copied file
RerunTrees ==
  { TreeOf(idx) : idx \in SUBSET { 3, 4, 5 } } \cup { TreeOf({ 6 }), TreeOf({ 5, 7 }) }

InitRerun ==
  /\ Init
  /\ argv \in RerunArgvs
  /\ inputExists => tree \in RerunTrees

\* the first run is over and the command is started again: the output tree
\* is what the first run left, everything else starts afresh
Rerun ==
  /\ pc = "done"
  /\ entry = "cli"
  /\ run = 1
  /\ run' = 2
  /\ argv' \in RerunArgvs
  /\ pc' = "start"
  /\ exitCode' = -1
  /\ options' = NoOptions
  /\ files' = <<>>
  /\ webpBaseNames' = <<>>
  /\ i' = 0
  /\ results' = NoResults
  /\ writes' = <<>>
  /\ outcomes' = <<>>
  /\ UNCHANGED << inputExists, tree, entry, outDirs, outFs, filename, slugified >>

NextRerun == CliNext \/ Rerun

SpecRerun == InitRerun /\ [][NextRerun]_vars

----------------------------------------------------------------------------
(* slugifyFilename applied to a file name, and to its own result           *)

\* the longest file name slugifyFilename is applied to
MaxLen == 4

\* the characters of the file names: a capital, a small letter, white space,
\* a hyphen, a dot and a special character
SlugAlphabet == { "A", "b", " ", "-", ".", "!" }

MyPhoto == <<"M","y"," ","P","h","o","t","o",".","P","N","G">>

\* the file names slugifyFilename is applied to
SlugNames == UNION { [1..n -> SlugAlphabet] : n \in 0..MaxLen } \cup { MyPhoto }

InitSlug ==
  /\ filename \in SlugNames
  /\ slugified = <<>>
  /\ pc = "slugify"
  /\ argv = DefaultArgv
  /\ inputExists = FALSE
  /\ tree = <<>>
  /\ entry = "api"
  /\ exitCode = -1
  /\ options = NoOptions
  /\ outDirs = {}
  /\ outFs = << >>
  /\ files = <<>>
  /\ webpBaseNames = <<>>
  /\ i = 0
  /\ results = NoResults
  /\ writes = <<>>
  /\ outcomes = <<>>
  /\ run = 1

\* slugifyFilename(filename)
Slugify ==
  /\ pc = "slugify"
  /\ slugified = <<>>
  /\ slugified' = << slugifyFilename(filename) >>
  /\ UNCHANGED << argv, inputExists, tree, pc, entry, exitCode, options, outDirs, outFs,
                  files, webpBaseNames, i, results, writes, outcomes, run, filename >>

\* slugifyFilename(slugifyFilename(filename))
SlugifyAgain ==
  /\ pc = "slugify"
  /\ Len(slugified) = 1
  /\ slugified' = Append(slugified, slugifyFilename(slugified[1]))
  /\ UNCHANGED << argv, inputExists, tree, pc, entry, exitCode, options, outDirs, outFs,
                  files, webpBaseNames, i, results, writes, outcomes, run, filename >>

NextSlug == Slugify \/ SlugifyAgain

SpecSlug == InitSlug /\ [][NextSlug]_vars

----------------------------------------------------------------------------
(* Claims                                                                  *)

\* C1: totalSaved is never negative and never decreases during a run: every
\* processed image, in the single-image path and in the multi-size path
\* alike, adds max(0, inputSize - outputSize), so an output larger than its
\* input adds 0.
C1_TotalSavedClamped ==
  [][results'.totalSaved >= 0 /\ (pc = "loop" => results'.totalSaved >= results.totalSaved)]_vars

\* C2: at the end of every run the bytes reported saved do not exceed the
\* input bytes counted, also when one input fans out into several sizes.
C2_SavedAtMostTotalSize == pc = "done" => results.totalSaved <= results.totalSize

\* the candidates among the first n whose iteration ended in the catch clause
RECURSIVE FailedUpTo(_)
FailedUpTo(n) ==
  IF n = 0 THEN <<>>
  ELSE IF outcomes[n] = "failed" THEN Append(FailedUpTo(n - 1), files[n])
  ELSE FailedUpTo(n - 1)

\* what the loop does with a candidate whose steps all succeed
NormalOutcomes(file) ==
  (IF options.skipExisting THEN { "existing" } ELSE {})
    \cup { IF ~IsJpegOrPng(Ext(file)) THEN "copied"
           ELSE IF BaseName(file) \in Range(webpBaseNames) THEN "shadowed"
           ELSE IF IsMultiSize THEN "multi"
           ELSE "optimized" }

IsIgnored(file) == \E k \in DOMAIN options.ignorePatterns : file = options.ignorePatterns[k]

\* C3: whichever candidates fail in their stat, decode, encode, write or copy
\* step, the loop goes on: every candidate gets its iteration, the error list
\* holds one entry per failing candidate in enumeration order, the candidates
\* that do not fail get their normal outcome, and totalFiles counts every
\* candidate that is not ignored, the failing ones included.
C3_FailuresAreIsolated ==
  pc \in { "loop", "done" } =>
    /\ Len(outcomes) = i
    /\ pc = "done" => i = Len(files)
    /\ [k \in DOMAIN results.errors |-> results.errors[k].file] = FailedUpTo(i)
    /\ \A k \in 1..i : outcomes[k] # "failed" => outcomes[k] \in NormalOutcomes(files[k])
    /\ results.totalFiles = Cardinality({ k \in DOMAIN tree : ~IsIgnored(tree[k]) })
    /\ results.totalFiles = Len(files)

\* a run that is over, in which a candidate failed and a later one did not
C3_Witness ==
  /\ pc = "done"
  /\ \E j \in 1..i, k \in 1..i : j < k /\ outcomes[j] = "failed" /\ outcomes[k] # "failed"
  /\ Len(results.errors) = 1

\* a quality that is a number outside [0, 100]
OutOfRange(q) == ~isNaN(q) /\ (q.val < 0 \/ q.val > 100)

BadQuality == OutOfRange(quality) \/ OutOfRange(jpgQuality) \/ OutOfRange(pngQuality)

\* C4: with a quality outside [0, 100] or a missing input directory the run
\* never gets to create the output directory, to list the input or to read
\* or write a candidate, and it ends with exit code 1; a run of the command
\* line that completes, with per-file errors or without, ends with exit code 0.
C4_FatalBeforeAnyOutput ==
  /\ (BadQuality \/ ~inputExists) =>
       /\ pc \in { "start", "called", "exited", "rejected" }
       /\ outDirs = {} /\ outFs = << >> /\ files = <<>> /\ writes = <<>> /\ outcomes = <<>>
       /\ results = NoResults
       /\ (pc \in { "exited", "rejected" } /\ entry = "cli") => exitCode = 1
  /\ BadQuality => pc \in { "start", "exited" }
  /\ (pc = "done" /\ entry = "cli") => exitCode = 0

\* the command line ended at a JPG quality of 101, with nothing created
C4_Witness ==
  /\ pc = "exited"
  /\ exitCode = 1
  /\ OutOfRange(jpgQuality)
  /\ ~OutOfRange(quality)
  /\ inputExists
  /\ outDirs = {}

\* the skip decision of the specification for a candidate, in its order of
\* priority, in the state in which its iteration starts
Decision(file) ==
  IF IsIgnored(file) THEN "ignored"
  ELSE IF options.skipExisting /\ ExistsSync(outputFile(file)) THEN "existing"
  ELSE IF IsJpegOrPng(Ext(file)) /\ BaseName(file) \in Range(webpBaseNames) THEN "shadowed"
  ELSE "proceed"

\* the iteration of File has just ended without a failure of fs.stat
IterationDone ==
  /\ InLoop
  /\ i' = i + 1
  /\ ~(outcomes'[i + 1] = "failed" /\ results'.errors[Len(results'.errors)].error = "stat")

\* the ignored files are no candidates, and they are counted as ignored
IgnoredAreNoCandidates ==
  pc \in { "loop", "done" } =>
    /\ \A k \in DOMAIN files : ~IsIgnored(files[k])
    /\ \A k \in DOMAIN tree : IsIgnored(tree[k]) => tree[k] \notin Range(files)
    /\ results.ignoredFiles = Cardinality({ k \in DOMAIN tree : IsIgnored(tree[k]) })

\* C5: every candidate gets one skip decision, the first that applies of
\* Ignored, ExistingSkipped, ShadowedByWebp, Proceed: an ignored file is no
\* candidate whatever exists in the output, and an image that is both present
\* in the output (skip-existing on) and shadowed by a .webp is skipped as
\* existing and not counted among the images skipped for a WebP.
C5_SkipPriority ==
  [][ /\ IgnoredAreNoCandidates'
      /\ IterationDone =>
           LET kind == outcomes'[i + 1]
               d    == Decision(File)
           IN  /\ Len(outcomes') = Len(outcomes) + 1
               /\ d = "existing" =>
                    /\ kind = "existing"
                    /\ results'.skippedImages = results.skippedImages
                    /\ writes' = writes
               /\ d = "shadowed" =>
                    /\ kind = "shadowed"
                    /\ results'.skippedImages = results.skippedImages + 1
                    /\ writes' = writes
               /\ d = "proceed" =>
                    /\ kind \in { "copied", "optimized", "multi", "failed" }
                    /\ results'.skippedImages = results.skippedImages ]_vars

\* an image that is shadowed by a .webp and present in the output has just
\* been skipped as existing, and no image was counted as skipped for a WebP
C5_Witness ==
  /\ pc = "loop"
  /\ i > 0
  /\ options.skipExisting
  /\ outcomes[i] = "existing"
  /\ IsJpegOrPng(Ext(files[i]))
  /\ BaseName(files[i]) \in Range(webpBaseNames)
  /\ outputFile(files[i]) \in DOMAIN outFs
  /\ results.skippedImages = 0

\* the name of a file without its extension
Stem(file) == SliceTo(file, Len(file) - Len(extname(file)))

\* X.jpg, X.jpeg or X.png with X.webp among the candidates
HasWebpSibling(file) ==
  /\ extname(file) \in { <<".","j","p","g">>, <<".","j","p","e","g">>, <<".","p","n","g">> }
  /\ (Stem(file) \o <<".","w","e","b","p">>) \in Range(files)

\* X.webp with X.jpg, X.jpeg or X.png among the candidates
IsWebpSibling(file) ==
  /\ extname(file) = <<".","w","e","b","p">>
  /\ \E k \in DOMAIN files : HasWebpSibling(files[k]) /\ Stem(files[k]) = Stem(file)

\* what C6 says of the iteration of File
ShadowedAndCopied ==
  /\ HasWebpSibling(File) =>
       /\ writes' = writes
       /\ outFs' = outFs
       /\ results'.skippedImages = results.skippedImages + 1
  /\ IsWebpSibling(File) =>
       /\ Len(writes') = Len(writes) + 1
       /\ writes'[Len(writes')].by = File
       /\ outFs'[outputFile(File)] = [from |-> File, w |-> 0, h |-> 0, format |-> "copy"]
       /\ results'.copiedFiles = results.copiedFiles + 1
       /\ results'.skippedImages = results.skippedImages

\* C6 as stated: with X.jpg (X.jpeg, X.png) and X.webp among the candidates,
\* the image produces no output, the count of images skipped for a WebP
\* rises by one for it, and X.webp is copied unchanged and counted as copied
\* (in every iteration that ends without an I/O failure).
C6_ShadowedAlways ==
  [][ (IterationDone /\ outcomes'[i + 1] # "failed") => ShadowedAndCopied ]_vars

\* C6 as amended: the same, for a file that is not skipped because its output
\* already exists under skip-existing.
C6_ShadowedUnlessExisting ==
  [][ (IterationDone /\ outcomes'[i + 1] # "failed" /\ Decision(File) # "existing")
        => ShadowedAndCopied ]_vars

\* a.jpg was skipped for a.webp, which was copied: a.webp is the only output
C6_Witness ==
  /\ pc = "done"
  /\ files = << <<"a",".","j","p","g">>, <<"a",".","w","e","b","p">> >>
  /\ outcomes = << "shadowed", "copied" >>
  /\ results.skippedImages = 1
  /\ results.copiedFiles = 1
  /\ DOMAIN outFs = { <<"a",".","w","e","b","p">> }

\* the paths the iteration of a candidate writes when nothing is skipped
Destinations(file) ==
  IF ~IsJpegOrPng(Ext(file)) THEN { outputFile(file) }
  ELSE IF BaseName(file) \in Range(webpBaseNames) THEN {}
  ELSE IF IsMultiSize
    THEN { MultiSizeOutputPath(file, options.resize.sizes[k]) : k \in DOMAIN options.resize.sizes }
  ELSE { outputFilePath(file) }

\* C7: with skip-existing, a candidate whose outputs all exist, from before
\* this run, at the paths the run would write (the .webp path under
\* conversion, the suffixed paths under multi-size) is skipped: its iteration
\* writes nothing, so that a second run over the output of a first writes
\* no file.
C7_ExistingDestinationSkipped ==
  [][ ( /\ InLoop
        /\ options.skipExisting
        /\ Destinations(File) # {}
        /\ \A p \in Destinations(File) :
             ExistsSync(p) /\ \A k \in DOMAIN writes : writes[k].path # p )
      => writes' = writes ]_vars

WidthToken == <<"{","w","i","d","t","h","}">>

\* the suffix pattern of a multi-size run holds the {width} token
HasWidthToken == IsMultiSize => IndexOf(options.resize.suffixPattern, WidthToken) # 0

\* C8: in a run whose suffix pattern holds {width}, two distinct candidates
\* never write the same output path.
C8_NoSharedOutputPath ==
  HasWidthToken =>
    \A j \in DOMAIN writes, k \in DOMAIN writes :
      writes[j].path = writes[k].path => writes[j].by = writes[k].by

\* the base name B of a candidate: its file name without the extension,
\* slugified when slug is on
StemOfName(file) ==
  Stem(IF options.slug THEN slugifyFilename(basename(file)) ELSE basename(file))

\* the names C9 gives the output of one size: B + P[{width} := size] + E, with
\* E the extension of the input (in its own or in lower case) or .webp
ExpectedSizedPaths(file, size) ==
  LET name == StemOfName(file) \o ReplaceFirst(options.resize.suffixPattern, WidthToken, DecStr(size))
      exts == IF options.webp THEN { <<".","w","e","b","p">> }
              ELSE { extname(file), toLowerCase(extname(file)) }
  IN  { join(dirname(file), name \o e) : e \in exts }

WritesBy(file) == SelectSeq(writes, LAMBDA wr : wr.by = file)

\* what C9 says of a candidate that was processed in the multi-size path
SizedAsDeclared(file) ==
  LET ws == WritesBy(file)
  IN  /\ Len(ws) = Len(options.resize.sizes)
      /\ \A k \in DOMAIN ws :
           /\ ws[k].size = options.resize.sizes[k]
           /\ ws[k].path \in ExpectedSizedPaths(file, options.resize.sizes[k])

\* C9: in a multi-size run with sizes s1..sn and a suffix pattern P holding
\* {width}, every image processed yields exactly n outputs, written in the
\* order of the sizes and named B + P[{width} := si] + E (or .webp), in the
\* directory that mirrors the directory of the input.
C9_SizedOutputNames ==
  (IsMultiSize /\ HasWidthToken) =>
    \A k \in DOMAIN outcomes : outcomes[k] = "multi" => SizedAsDeclared(files[k])

\* the run resizes under --max-width / --max-height
IsMaxBound ==
  /\ options.resize.set
  /\ ~options.resize.hasSizes
  /\ ~(options.resize.width # 0 /\ options.resize.height # 0)

\* C10: no output of a max-width / max-height run or of a multi-size entry is
\* wider or taller than its source: the width written is min(requested,
\* original width), and the output of every size is made from the input file.
C10_NeverEnlarged ==
  \A k \in DOMAIN writes :
    LET wr  == writes[k]
        src == Metadata(wr.by)
    IN  IsJpegOrPng(Ext(wr.by)) =>
          /\ IsMultiSize =>
               /\ wr.w = Min(wr.size, src.w)
               /\ wr.h <= src.h
          /\ IsMaxBound =>
               /\ wr.w <= src.w
               /\ wr.h <= src.h
               /\ (options.resize.maxWidth # 0 /\ options.resize.maxHeight = 0)
                    => wr.w = Min(options.resize.maxWidth, src.w)

\* a source 300 wide was written 200 wide for the size 200 and 300 wide for
\* the sizes 400 and 800
C10_Witness ==
  /\ pc = "done"
  /\ \E j \in DOMAIN writes, k \in DOMAIN writes :
       /\ writes[j].by = writes[k].by
       /\ Metadata(writes[j].by).w = 300
       /\ writes[j].size = 200 /\ writes[j].w = 200
       /\ writes[k].size = 800 /\ writes[k].w = 300

\* C11: slugifyFilename is idempotent, slugifyFilename(slugifyFilename(s)) =
\* slugifyFilename(s) for every file name s, and it returns the part of s from
\* the last dot on unchanged after a slugified name that holds no dot:
\* slugifyFilename("My Photo.PNG") = "my-photo.PNG".
C11_SlugifyIdempotent ==
  /\ Len(slugified) = 2 => slugified[2] = slugified[1]
  /\ Len(slugified) >= 1 =>
       LET k    == lastIndexOf(filename, ".")
           tail == IF k = -1 THEN <<>> ELSE SliceFrom(filename, k)
       IN  /\ EndsWith(slugified[1], tail)
           /\ "." \notin Range(SliceTo(slugified[1], Len(slugified[1]) - Len(tail)))
           /\ filename = MyPhoto =>
                slugified[1] = <<"m","y","-","p","h","o","t","o",".","P","N","G">>

\* slugifyFilename was applied twice to a name with leading white space, a
\* capital, a special character and a final dot: " A!." gave "a." twice
C11_Witness ==
  /\ filename = <<" ","A","!",".">>
  /\ slugified = << <<"a",".">>, <<"a",".">> >>

\* the resize behaviour the precedence --sizes > --resize > --max-width /
\* --max-height gives the command line
ActiveVariant ==
  IF argv.sizesGiven THEN "width"
  ELSE IF argv.resize # <<>> THEN "fixed"
  ELSE IF argv.maxWidth # <<>> \/ argv.maxHeight # <<>> THEN "inside"
  ELSE "none"

\* C12: whatever combination of --sizes, --resize and --max-width /
\* --max-height is on the command line, every image of the run is executed by
\* the path of the one variant the precedence gives: the multi-size path under
\* --sizes; else, under --resize WxH, the fixed-size resize to W x H with the
\* mode given; else the proportional resize under the maximum bounds.
C12_OneResizeVariant ==
  /\ \A k \in DOMAIN writes :
       IsJpegOrPng(Ext(writes[k].by)) =>
         /\ writes[k].resize = ActiveVariant
         /\ ActiveVariant = "fixed" =>
              /\ writes[k].fit = argv.resizeMode
              /\ writes[k].w = parseInt(dimensions[1]).val
              /\ writes[k].h = parseInt(dimensions[2]).val
  /\ \A k \in DOMAIN outcomes :
       /\ outcomes[k] = "multi" => ActiveVariant = "width"
       /\ outcomes[k] = "optimized" => ActiveVariant # "width"

\* a number that is zero or negative
NonPositive(str) == ~isNaN(parseInt(str)) /\ parseInt(str).val <= 0

\* --resize WxH, or --max-width / --max-height, is the resize option of the
\* run and holds a dimension that is zero or negative
BadDimension ==
  /\ ~argv.sizesGiven
  /\ IF argv.resize # <<>>
       THEN Len(dimensions) = 2 /\ (NonPositive(dimensions[1]) \/ NonPositive(dimensions[2]))
       ELSE NonPositive(argv.maxWidth) \/ NonPositive(argv.maxHeight)

\* the script never got to call processDirectory: nothing exists in the output
NeverCalled ==
  /\ pc \in { "start", "exited" }
  /\ pc = "exited" => exitCode = 1
  /\ outDirs = {} /\ outFs = << >> /\ files = <<>> /\ writes = <<>> /\ outcomes = <<>>

\* C13: a --resize WxH or a --max-width / --max-height with a dimension that
\* is zero or negative ends the process with a nonzero exit code before
\* processDirectory is called: no output directory, no file processed.
C13_NonPositiveRejected == BadDimension => NeverCalled

\* C14: a --sizes that yields no size ends the run as a configuration error
\* before a file is planned or processed; the run never goes on with another
\* resize option or with the plain optimization.
C14_EmptySizesRejected == (argv.sizesGiven /\ argv.sizes = <<>>) => NeverCalled

\* C15: once the loop over the candidates has begun the run does not end
\* abnormally: every failure, that of creating the destination directory of
\* a candidate included, is recorded as an error of its file, and the run
\* goes on to Done.
C15_NoAbortInLoop ==
  [][ pc = "loop" =>
        /\ pc' \in { "loop", "done" }
        /\ \A k \in DOMAIN results.errors : results'.errors[k] = results.errors[k] ]_vars

\* C16: with only-resize every output of an image is written in the format of
\* its input: the output path keeps the extension of the input and no encoder
\* is selected, in the single-image path and for every size of the multi-size
\* path, with and without --webp.
C16_OnlyResizeKeepsFormat ==
  options.onlyResize =>
    /\ \A k \in DOMAIN writes :
         IsJpegOrPng(Ext(writes[k].by)) =>
           \/ EndsWith(writes[k].path, extname(writes[k].by))
           \/ EndsWith(writes[k].path, Ext(writes[k].by))
    /\ \A p \in DOMAIN outFs :
         IsJpegOrPng(Ext(outFs[p].from)) => outFs[p].format = "auto"

\* C17: the command line accepts --slug, and then processDirectory is called
\* with slug enabled, so that every output file has the slugified name of its
\* input file.
C17_SlugFlagAccepted ==
  (entry = "cli" /\ argv.slugGiven) =>
    /\ pc # "exited"
    /\ pc \in { "called", "loop", "done" } => options.slug
    /\ \A k \in DOMAIN writes :
         basename(writes[k].path) = slugifyFilename(basename(writes[k].by))

\* the suffix pattern -{width}{width}
TwoTokens == <<"-">> \o WidthToken \o WidthToken

\* C18: with a suffix pattern without {width} every size of an input is
\* written to the same path, each over the one before, so that one output
\* file remains of the input, that of the last size declared; with a pattern
\* that holds {width} twice the first occurrence only is replaced by the size.
C18_SuffixSubstitution ==
  [][ (InLoop /\ IsMultiSize /\ i' = i + 1 /\ outcomes'[i + 1] = "multi") =>
        LET n      == Len(options.resize.sizes)
            ws     == SubSeq(writes', Len(writes) + 1, Len(writes'))
            outExt == IF options.webp THEN <<".","w","e","b","p">> ELSE Ext(File)
        IN  /\ Len(ws) = n
            /\ ~HasWidthToken =>
                 \E p \in DOMAIN outFs' :
                   /\ \A k \in 1..n : ws[k].path = p
                   /\ (DOMAIN outFs' \ DOMAIN outFs) \subseteq { p }
                   /\ outFs'[p].from = File
                   /\ outFs'[p].w = Min(options.resize.sizes[n], Metadata(File).w)
            /\ options.resize.suffixPattern = TwoTokens =>
                 \A k \in 1..n :
                   EndsWith(ws[k].path, <<"-">> \o DecStr(ws[k].size) \o WidthToken \o outExt) ]_vars

\* a.png, 1500 wide, was written three times to a-x.png under the pattern -x:
\* the one file that remains is 800 wide, the last of 200, 400, 800
C18_Witness ==
  /\ pc = "done"
  /\ tree = << <<"a",".","p","n","g">> >>
  /\ options.resize.suffixPattern = <<"-","x">>
  /\ Len(writes) = 3
  /\ DOMAIN outFs = { <<"a","-","x",".","p","n","g">> }
  /\ outFs[<<"a","-","x",".","p","n","g">>].w = 800

\* the paths C19 and C20 give the converted or plain output of an image: the
\* stem of its output name, then .webp or the extension of the input
ExpectedSinglePaths(file) ==
  LET exts == IF options.webp THEN { <<".","w","e","b","p">> }
              ELSE { extname(file), toLowerCase(extname(file)) }
  IN  { join(dirname(file), StemOfName(file) \o e) : e \in exts }

\* every output of an image is named after the stem of its output name
NamedAfterStem ==
  \A k \in DOMAIN writes :
    LET wr == writes[k]
    IN  IsJpegOrPng(Ext(wr.by)) =>
          IF wr.resize = "width"
            THEN wr.path \in ExpectedSizedPaths(wr.by, wr.size)
            ELSE wr.path \in ExpectedSinglePaths(wr.by)

\* the stem of slugifyFilename(F): the slugified name before its last dot
SlugStem(file) ==
  LET s == slugifyFilename(basename(file))
      k == lastIndexOf(s, ".")
  IN  IF k = -1 THEN s ELSE SliceTo(s, k)

\* the names C19 gives the .webp output and the output of a size
SlugNamed(wr) ==
  LET suffix == IF wr.resize = "width"
                  THEN ReplaceFirst(options.resize.suffixPattern, WidthToken, DecStr(wr.size))
                  ELSE <<>>
      exts   == IF options.webp THEN { <<".","w","e","b","p">> }
                ELSE { extname(wr.by), toLowerCase(extname(wr.by)) }
  IN  wr.path \in { join(dirname(wr.by), SlugStem(wr.by) \o suffix \o e) : e \in exts }

\* C19: with slug enabled the stem of an output name is the same whichever
\* path writes it: the .webp output and the output of every size are named
\* after the stem of slugifyFilename(F), the name of the plain optimized or
\* copied output of F, also for a name with several dots and for a name
\* whose stem slugifies to the empty string.
C19_SlugStemEverywhere ==
  options.slug =>
    \A k \in DOMAIN writes :
      LET wr == writes[k]
      IN  (IsJpegOrPng(Ext(wr.by)) /\ (options.webp \/ wr.resize = "width")) => SlugNamed(wr)

\* an image with a .webp sibling, the extensions compared without their case
HasWebpSiblingAnyCase(file) ==
  /\ IsJpegOrPng(toLowerCase(extname(file)))
  /\ \E k \in DOMAIN files :
       /\ toLowerCase(extname(files[k])) = <<".","w","e","b","p">>
       /\ Stem(files[k]) = Stem(file)

\* C20: the case of an extension makes no difference: the base name of X.JPG,
\* X.PNG or X.Jpeg is X, its converted and multi-size outputs are named after
\* X alone, and it is skipped for a sibling X.webp or X.WEBP.
C20_ExtensionCaseIgnored ==
  /\ ~options.slug => NamedAfterStem
  /\ \A k \in 1..i :
       HasWebpSiblingAnyCase(files[k]) => outcomes[k] \in { "shadowed", "existing", "failed" }

\* the candidates the statistics account for
Accounted ==
  results.optimizedImages + results.multiSizeImages + results.copiedFiles
    + results.skippedImages + Len(results.errors)

\* C21: at the end of a run every candidate that is not ignored is accounted
\* for once: optimizedImages + multiSizeImages + copiedFiles + skippedImages
\* + errors.length is at most totalFiles, and equal to it when skip-existing
\* is off; no counter exceeds totalFiles.
C21_AccountedOnce ==
  pc = "done" =>
    /\ Accounted <= results.totalFiles
    /\ ~options.skipExisting => Accounted = results.totalFiles
    /\ results.optimizedImages <= results.totalFiles
    /\ results.multiSizeImages <= results.totalFiles
    /\ results.copiedFiles <= results.totalFiles
    /\ results.skippedImages <= results.totalFiles
    /\ Len(results.errors) <= results.totalFiles

\* the name of a file without its directory and its extension
BaseStem(file) == Stem(basename(file))

\* the .webp files of the input tree that no ignore pattern matches
ShadowingWebps ==
  { tree[k] : k \in { j \in DOMAIN tree :
                        extname(tree[j]) = <<".","w","e","b","p">> /\ ~IsIgnored(tree[j]) } }

\* a JPEG or PNG whose base name is among the given ones
IsShadowed(file, stems) ==
  IsJpegOrPng(toLowerCase(extname(file))) /\ BaseStem(file) \in stems

\* C22: the shadow set is built before the loop from the base names of the
\* .webp candidates that are not ignored, and it is that set in every state
\* of the loop and after it; a JPEG or PNG in any directory is skipped when a
\* .webp of its base name that is not ignored exists in any directory of the
\* input tree, and no image is skipped for an ignored .webp.
C22_ShadowByBaseName ==
  pc \in { "loop", "done" } =>
    LET stems == { BaseStem(f) : f \in ShadowingWebps }
    IN  /\ Range(webpBaseNames) = stems
        /\ \A k \in 1..i :
             IF IsShadowed(files[k], stems)
               THEN /\ outcomes[k] \in { "shadowed", "existing", "failed" }
                    /\ \A j \in DOMAIN writes : writes[j].by # files[k]
               ELSE outcomes[k] # "shadowed"

\* d/a.jpg was skipped for a.webp of the directory above, which was copied
C22_Witness ==
  /\ pc = "done"
  /\ files = << <<"a",".","w","e","b","p">>, <<"d","/","a",".","j","p","g">> >>
  /\ outcomes = << "copied", "shadowed" >>
  /\ results.skippedImages = 1
  /\ DOMAIN outFs = { <<"a",".","w","e","b","p">> }

====
